---- MODULE Spec2Model ----
(***************************************************************************)
(* Price-alert service (app/main.py): the background task fetch_prices     *)
(* polls a price feed, matches the snapshot against the stored             *)
(* subscriptions and sends one Telegram message per triggering match,      *)
(* while the /register and /subscribe handlers write the same store.       *)
(*                                                                         *)
(* The engine is modelled at the granularity of its await points: the code *)
(* between two awaits runs without interleaving on the asyncio loop.       *)
(* A nullable value is a sequence of length 0 (None) or 1.                 *)
(***************************************************************************)
EXTENDS Integers, Sequences, FiniteSets, TLC

\* ---------------------------------------------------------------- bounds
MaxSubs == 2          \* rows of the subscriptions table
MaxSnapshot == 2      \* entries of one feed response

Usernames == {"alice", "bob"}
Symbols == {"BTCUSDT", "ETHUSDT"}
PriceStrs == {"2.0", "3", "abc"}   \* string-encoded prices: at, above, not a number
Thresholds == {2}                  \* SubscriptionCreate.price values
TelegramIds == {111}               \* UserCreate.telegram_id values

None == << >>
Some(v) == << v >>
Nullable(S) == {None} \cup {Some(v) : v \in S}

\* An element of the response that is not a {symbol, price} object (the keys
\* of a JSON object, a number, ...): indexing it with "symbol" raises.
BadEntry == [symbol |-> "", price |-> "", shaped |-> FALSE]
Entry(s, p) == [symbol |-> s, price |-> p, shaped |-> TRUE]
\* The entries the feed is taken to list: every price string for one symbol,
\* and a price below the threshold for the other.
Entries == {Entry("BTCUSDT", p) : p \in PriceStrs} \cup {Entry("ETHUSDT", "1")}

RECURSIVE SeqsUpTo(_, _)
SeqsUpTo(S, n) ==
    IF n = 0 THEN {<< >>}
    ELSE LET shorter == SeqsUpTo(S, n - 1)
         IN  shorter \cup {Append(q, e) : q \in {x \in shorter : Len(x) = n - 1}, e \in S}

\* What response.json() can hand to the matching loop.
Snapshots == SeqsUpTo(Entries, MaxSnapshot) \cup {<< BadEntry >>}

VARIABLES
    users,          \* table users: sequence of [id, username, telegram_id]
    subscriptions,  \* table subscriptions: sequence of [id, user_id, symbol, price]
    pc,             \* position of the fetch_prices task
    session,        \* the Session() scope of the last cycle entered ("none" before the first)
    prices,         \* local `prices` of the current cycle
    subs,           \* local `subscriptions` of the current cycle
    i, j,           \* positions of the two for loops (1-based)
    current_price,  \* local `current_price`
    tg_id,          \* local `tg_id`
    sent,           \* calls of send_telegram_message made in the current cycle
    error,          \* the exception that ended the task ("none" while it runs)
    response,       \* the last API request and its outcome, where they are observed
    prev            \* the previous completed cycle, kept while the inputs are unchanged

vars == << users, subscriptions, pc, session, prices, subs, i, j,
           current_price, tg_id, sent, error, response, prev >>

storeVars == << users, subscriptions >>
engineVars == << pc, session, prices, subs, i, j, current_price, tg_id, sent, error >>

\* ------------------------------------------------------------- conversions
\* float(price["price"]): the parsed value, or a ValueError.
Float(s) ==
    CASE s = "1"   -> [ok |-> TRUE, val |-> 1]
      [] s = "2.0" -> [ok |-> TRUE, val |-> 2]
      [] s = "3"   -> [ok |-> TRUE, val |-> 3]
      [] OTHER     -> [ok |-> FALSE, val |-> 0]

\* str(user_tg_id.scalar()): None (a null column or no row) becomes "None".
Str(t) ==
    IF t = None THEN "None"
    ELSE CASE t[1] = 111 -> "111"
           [] OTHER      -> "?"

\* ------------------------------------------------------------------ store
\* What the client of a request gets back. The requests are observed only in
\* the specification that starts with response = NoRequest.
Unobserved == [observed |-> FALSE]
NoRequest == [observed |-> TRUE, kind |-> "none", username |-> "", symbol |-> "",
              price |-> None, result |-> ""]
Reply(kind, username, symbol, price, result) ==
    response' = IF response.observed
                THEN [observed |-> TRUE, kind |-> kind, username |-> username,
                      symbol |-> symbol, price |-> price, result |-> result]
                ELSE response

\* A lookup that finds no row, as without the unique index.
NoUserByName(name) == {}

\* The rows of users with this username (User.username is unique, models.py:16).
UserByName(name) == {n \in 1..Len(users) : users[n].username = name}

\* A query without its where clause: the telegram_id of the first row.
FirstTelegramId(user_id) ==
    IF users = << >> THEN None ELSE users[1].telegram_id

\* select(User.telegram_id).where(User.id == user_id) ... .scalar()
TelegramIdOf(user_id) ==
    LET rows == {n \in 1..Len(users) : users[n].id = user_id}
    IN  IF rows = {} THEN None ELSE users[CHOOSE n \in rows : TRUE].telegram_id

\* POST /register: the unique index on users.username rejects a duplicate
\* (IntegrityError, rollback, 400 "Username already exists").
Register(username, telegram_id) ==
    /\ IF UserByName(username) # {}
       THEN /\ Reply("register", username, "", None, "Username already exists")
            /\ UNCHANGED << users, prev >>
       ELSE /\ users' = Append(users, [id |-> Len(users) + 1,
                                        username |-> username,
                                        telegram_id |-> telegram_id])
            /\ Reply("register", username, "", None, "access_token")
            /\ prev' = None
    /\ UNCHANGED << subscriptions >>
    /\ UNCHANGED engineVars

\* Subscription.price is Mapped[float]: the column is NOT NULL.
PriceColumnAccepts(price) == price # None

\* POST /subscribe by the authenticated user current_user: the commit raises
\* IntegrityError, and stores nothing, when the column rejects the price.
CreateSubscription(current_user, symbol, price) ==
    /\ Len(subscriptions) < MaxSubs
    /\ IF PriceColumnAccepts(price)
       THEN /\ subscriptions' = Append(subscriptions,
                                       [id |-> Len(subscriptions) + 1,
                                        user_id |-> current_user.id,
                                        symbol |-> symbol,
                                        price |-> price])
            /\ Reply("subscribe", current_user.username, symbol, price, "subscription")
            /\ prev' = None
       ELSE /\ Reply("subscribe", current_user.username, symbol, price, "IntegrityError")
            /\ UNCHANGED << subscriptions, prev >>
    /\ UNCHANGED << users >>
    /\ UNCHANGED engineVars


\* ----------------------------------------------------------------- engine
\* A comparison that every entry passes.
AnyEntryMatches(entry, sub) == TRUE

\* price["symbol"] == sub.symbol (main.py:211)
SymbolMatches(entry, sub) == entry.symbol = sub.symbol

\* A test that every parsed price passes.
TriggersAlways(sub, value) == TRUE

\* sub.price is None or current_price <= sub.price (main.py:217)
Triggers(sub, value) == sub.price = None \/ value <= sub.price[1]

\* The two for loops from position (a, b) up to the next await or the end:
\* "trigger" at the first entry (in loop order) that matches and triggers,
\* "raise" at the first entry the loop body cannot index or parse,
\* "done" when both loops are exhausted.
RECURSIVE Scan(_, _, _, _)
Scan(ss, ps, a, b) ==
    IF a > Len(ss) THEN [kind |-> "done", i |-> a, j |-> 1, value |-> 0]
    ELSE IF b > Len(ps) THEN Scan(ss, ps, a + 1, 1)
    ELSE IF ~ps[b].shaped THEN [kind |-> "TypeError", i |-> a, j |-> b, value |-> 0]
    ELSE IF ~SymbolMatches(ps[b], ss[a]) THEN Scan(ss, ps, a, b + 1)
    ELSE IF ~Float(ps[b].price).ok THEN [kind |-> "ValueError", i |-> a, j |-> b, value |-> 0]
    ELSE IF Triggers(ss[a], Float(ps[b].price).val)
         THEN [kind |-> "trigger", i |-> a, j |-> b, value |-> Float(ps[b].price).val]
    ELSE Scan(ss, ps, a, b + 1)

\* An exception that ends the task and leaves the session as it is.
RaiseHoldingSession(exception) ==
    /\ pc' = "crashed"
    /\ UNCHANGED session
    /\ error' = exception

\* An exception propagates out of `while True`: nothing catches it, so the
\* task ends; on the way out `async with Session()` closes the session.
Raise(exception) ==
    /\ pc' = "crashed"
    /\ session' = "closed"
    /\ error' = exception

\* The loops with the session committed and closed before the first send.
ResumeCommittingFirst(ss, ps, a, b) ==
    LET r == Scan(ss, ps, a, b)
    IN  /\ i' = r.i
        /\ j' = r.j
        /\ current_price' = r.value
        /\ CASE r.kind = "trigger" -> pc' = "lookup" /\ session' = "closed" /\ UNCHANGED error
             [] r.kind = "done"    -> pc' = "commit" /\ session' = "open" /\ UNCHANGED error
             [] OTHER              -> Raise(r.kind)

\* Where the task stands after running the loops from (a, b).
Resume(ss, ps, a, b) ==
    LET r == Scan(ss, ps, a, b)
    IN  /\ i' = r.i
        /\ j' = r.j
        /\ current_price' = r.value
        /\ CASE r.kind = "trigger" -> pc' = "lookup" /\ session' = "open" /\ UNCHANGED error
             [] r.kind = "done"    -> pc' = "commit" /\ session' = "open" /\ UNCHANGED error
             [] OTHER              -> Raise(r.kind)

\* asyncio.sleep(5) returns (or the task starts): the next iteration begins.
Wake ==
    /\ pc = "idle"
    /\ pc' = "fetch"
    /\ UNCHANGED << session, prices, subs, i, j, current_price, tg_id, sent, error, prev >>
    /\ UNCHANGED << storeVars, response >>

\* client.get(...) and response.json() (main.py:199-200).
Fetch ==
    /\ pc = "fetch"
    /\ \/ \E snapshot \in Snapshots :
            /\ prices' = snapshot
            /\ pc' = "load"
            /\ prev' = IF prev # None /\ prev[1].prices = snapshot THEN prev ELSE None
            /\ UNCHANGED << session, error >>
       \/ /\ pc' = "crashed"           \* network error, or a body that is not JSON:
          /\ error' = "FetchError"     \* raised before Session() is entered
          /\ prev' = None
          /\ UNCHANGED << prices, session >>
    /\ UNCHANGED << subs, i, j, current_price, tg_id, sent >>
    /\ UNCHANGED << storeVars, response >>

\* Session() is entered, select(Subscription) runs, then the loops run up to
\* their first await (main.py:202-217).
Load ==
    /\ pc = "load"
    /\ \/ /\ subs' = subscriptions
          /\ Resume(subscriptions, prices, 1, 1)
          /\ prev' = IF prev # None /\ prev[1].subs = subscriptions THEN prev ELSE None
       \/ /\ Raise("StoreError")       \* the query fails
          /\ prev' = None
          /\ UNCHANGED << subs, i, j, current_price >>
    /\ UNCHANGED << prices, tg_id, sent >>
    /\ UNCHANGED << storeVars, response >>

\* select(User.telegram_id).where(User.id == sub.user_id), str(...) (main.py:218-223).
Lookup ==
    /\ pc = "lookup"
    /\ \/ /\ tg_id' = Str(TelegramIdOf(subs[i].user_id))
          /\ pc' = "send"
          /\ UNCHANGED << session, error >>
       \/ /\ Raise("StoreError")       \* the query fails
          /\ UNCHANGED tg_id
    /\ UNCHANGED << prices, subs, i, j, current_price, sent, prev >>
    /\ UNCHANGED << storeVars, response >>

\* One call of send_telegram_message for subscription subs[i] and entry j.
Call(ok) == [sub |-> subs[i].id, entry |-> j, chat_id |-> tg_id,
             symbol |-> subs[i].symbol, price |-> current_price, ok |-> ok]

\* send_telegram_message(...) (main.py:229-233, 130-138), then the loops go on
\* with the next entry.
Send ==
    /\ pc = "send"
    /\ \/ /\ sent' = Append(sent, Call(TRUE))
          /\ Resume(subs, prices, i, j + 1)
       \/ /\ sent' = Append(sent, Call(FALSE))   \* client.post raises
          /\ Raise("SendError")
          /\ UNCHANGED << i, j, current_price >>
    /\ UNCHANGED << prices, subs, tg_id, prev >>
    /\ UNCHANGED << storeVars, response >>

\* A commit that flushes the deletion of the subscriptions the cycle loaded.
CommitStepDeleting(record) ==
    /\ pc = "commit"
    /\ pc' = "idle"
    /\ session' = "closed"
    /\ prev' = None
    /\ subscriptions' = << >>
    /\ prices' = << >>
    /\ subs' = << >>
    /\ sent' = << >>
    /\ i' = 1
    /\ j' = 1
    /\ current_price' = 0
    /\ tg_id' = ""
    /\ UNCHANGED << users, error, response >>

\* session.commit(), the two scopes are left, asyncio.sleep(5) (main.py:235-237).
\* With `record` the finished cycle is kept in prev for the next one to compare.
CommitStep(record) ==
    /\ pc = "commit"
    /\ \/ /\ pc' = "idle"
          /\ session' = "closed"
          /\ prev' = IF record
                     THEN Some([prices |-> prices, subs |-> subs, sent |-> sent])
                     ELSE None
          /\ UNCHANGED error
          /\ prices' = << >>
          /\ subs' = << >>
          /\ sent' = << >>
          /\ i' = 1
          /\ j' = 1
          /\ current_price' = 0
          /\ tg_id' = ""
       \/ /\ Raise("StoreError")       \* the commit fails
          /\ UNCHANGED << prices, subs, sent, i, j, current_price, tg_id, prev >>
    /\ UNCHANGED << storeVars, response >>

Commit == CommitStep(FALSE)
CommitRecorded == CommitStep(TRUE)

\* ---------------------------------------------------------- specification
Init ==
    /\ users = << >>
    /\ subscriptions = << >>
    /\ error = "none"
    /\ pc = "idle"
    /\ session = "none"
    /\ prices = << >>
    /\ subs = << >>
    /\ i = 1
    /\ j = 1
    /\ current_price = 0
    /\ tg_id = ""
    /\ sent = << >>
    /\ response = Unobserved
    /\ prev = None

RegisterRequest ==
    \E username \in Usernames, telegram_id \in Nullable(TelegramIds) :
        Register(username, telegram_id)

\* A subscribe request accepted for a user id that has no row.
SubscribeRequestUnchecked ==
    \E id \in 1..(Len(users) + 1), symbol \in Symbols, price \in Nullable(Thresholds) :
        CreateSubscription([id |-> id, username |-> "", telegram_id |-> None],
                           symbol, price)

SubscribeRequest ==
    \E n \in 1..Len(users), symbol \in Symbols, price \in Nullable(Thresholds) :
        CreateSubscription(users[n], symbol, price)

Next ==
    \/ RegisterRequest
    \/ SubscribeRequest
    \/ Wake
    \/ Fetch
    \/ Load
    \/ Lookup
    \/ Send
    \/ Commit

Spec == Init /\ [][Next]_vars

\* The asyncio loop resumes the task whenever the call it awaits has returned
\* or raised; no client is obliged to send a request.
SpecFair ==
    /\ Spec
    /\ WF_vars(Wake)
    /\ WF_vars(Fetch)
    /\ WF_vars(Load)
    /\ WF_vars(Lookup)
    /\ WF_vars(Send)
    /\ WF_vars(Commit)

\* The same program, with each finished cycle remembered for the next one.
NextRepeat ==
    \/ RegisterRequest
    \/ SubscribeRequest
    \/ Wake
    \/ Fetch
    \/ Load
    \/ Lookup
    \/ Send
    \/ CommitRecorded

SpecRepeat == Init /\ [][NextRepeat]_vars

\* The request handlers alone, with every request and its outcome observed.
InitApi ==
    /\ users = << >>
    /\ subscriptions = << >>
    /\ error = "none"
    /\ pc = "idle"
    /\ session = "none"
    /\ prices = << >>
    /\ subs = << >>
    /\ i = 1
    /\ j = 1
    /\ current_price = 0
    /\ tg_id = ""
    /\ sent = << >>
    /\ response = NoRequest
    /\ prev = None

NextApi ==
    \/ RegisterRequest
    \/ SubscribeRequest

SpecApi == InitApi /\ [][NextApi]_vars

\* ------------------------------------------------------------ observations
\* The cycle in progress has its snapshot / has loaded its subscriptions.
Fetched == pc \in {"load", "lookup", "send", "commit"}
              \/ (pc = "crashed" /\ error # "FetchError")
Loaded == pc \in {"lookup", "send", "commit"}
             \/ (pc = "crashed" /\ error \in {"TypeError", "ValueError", "SendError"})
             \/ (pc = "crashed" /\ error = "StoreError" /\ subs # << >>)

\* The cycle is over: every send it makes has been made.
CycleOver == pc \in {"commit", "crashed"}

\* The loaded subscription with this id.
SubOf(id) == subs[CHOOSE n \in 1..Len(subs) : subs[n].id = id]

\* send_telegram_message was called for the subscription / returned for it.
Invoked(sub) == \E k \in 1..Len(sent) : sent[k].sub = sub.id
Notified(sub) == \E k \in 1..Len(sent) : sent[k].sub = sub.id /\ sent[k].ok

\* Entries of the snapshot that carry the subscription's symbol.
MatchingEntries(sub) ==
    {m \in 1..Len(prices) : prices[m].shaped /\ prices[m].symbol = sub.symbol}
Unparsable(m) == ~Float(prices[m].price).ok
AtOrBelow(m, sub) ==
    Float(prices[m].price).ok /\ Float(prices[m].price).val <= sub.price[1]

\* The triggering condition of the specification, for a loaded subscription.
ShouldTrigger(sub) ==
    \E m \in MatchingEntries(sub) :
        Float(prices[m].price).ok /\ (sub.price = None \/ AtOrBelow(m, sub))

\* The notifications a cycle delivered, without their order.
Notifications(calls) ==
    {[sub |-> calls[k].sub, chat_id |-> calls[k].chat_id,
      symbol |-> calls[k].symbol, price |-> calls[k].price] :
        k \in {n \in 1..Len(calls) : calls[n].ok}}

\* ------------------------------------------------------------------ claims
\* C1: in a cycle whose snapshot was fetched, a subscription with a threshold
\* is notified if and only if some entry with its symbol has a price at or
\* below the threshold.
C1_NotifiedIffAtOrBelowThreshold ==
    (CycleOver /\ Fetched /\ Loaded) =>
        \A n \in 1..Len(subs) :
            subs[n].price # None =>
                (Notified(subs[n]) <=>
                    \E m \in MatchingEntries(subs[n]) : AtOrBelow(m, subs[n]))

\* C2 speaks of stored subscriptions without a threshold. No such row is
\* ever stored or loaded: /subscribe with price null fails at the commit.
ThresholdAlwaysStored ==
    /\ \A n \in 1..Len(subscriptions) : subscriptions[n].price # None
    /\ \A n \in 1..Len(subs) : subs[n].price # None

\* C3: no call of the notifier is made for a subscription whose symbol is the
\* symbol of no entry of the cycle's snapshot.
C3_NoSendWithoutMatchingEntry ==
    \A k \in 1..Len(sent) : MatchingEntries(SubOf(sent[k].sub)) # {}

\* A finished cycle that notified one subscription and found no entry for
\* another one.
C3_Witness ==
    /\ pc = "commit"
    /\ sent # << >>
    /\ prices # << >>
    /\ \E n \in 1..Len(subs) : MatchingEntries(subs[n]) = {} /\ ~Invoked(subs[n])

\* C4: a failed price fetch (network error, body that is not JSON, or a body
\* of the wrong shape) sends nothing and does not end the task.
C4_FetchFailureIsSurvived ==
    error \in {"FetchError", "TypeError"} => (sent = << >> /\ pc # "crashed")

\* C5: when an entry matching some subscription has a price that is not a
\* number, the cycle still completes and every other subscription that
\* should trigger is notified.
C5_UnparsablePriceSkipsOneSubscription ==
    (CycleOver /\ Loaded) =>
        \A n \in 1..Len(subs) :
            (\E m \in MatchingEntries(subs[n]) : Unparsable(m)) =>
                /\ pc = "commit"
                /\ \A o \in 1..Len(subs) :
                       (o # n /\ ShouldTrigger(subs[o])
                            /\ \A m \in MatchingEntries(subs[o]) : ~Unparsable(m))
                       => Invoked(subs[o])

\* C6: a send that fails does not abort the cycle: the task goes on and every
\* other subscription that should trigger has its send attempted.
C6_SendFailureIsIsolated ==
    (CycleOver /\ \E k \in 1..Len(sent) : ~sent[k].ok) =>
        /\ pc = "commit"
        /\ \A n \in 1..Len(subs) : ShouldTrigger(subs[n]) => Invoked(subs[n])

\* C7: the notifier is not called for a subscription whose user has no
\* telegram_id (or no row).
C7_NoSendWithoutAddress ==
    \A k \in 1..Len(sent) : TelegramIdOf(SubOf(sent[k].sub).user_id) # None

\* C8: the task is always idle or in a cycle; it never ends on an exception.
C8_EngineNeverTerminates ==
    pc \in {"idle", "fetch", "load", "lookup", "send", "commit"}

\* C9: a cycle run with the snapshot, subscriptions and users of the cycle
\* before it delivers the same set of notifications.
C9_SameInputsSameNotifications ==
    (CycleOver /\ Loaded /\ prev # None) =>
        Notifications(sent) = Notifications(prev[1].sent)

\* C10: within one cycle the notifier is called at most once for one
\* subscription.
C10_AtMostOneSendPerSubscription ==
    \A k, l \in 1..Len(sent) : sent[k].sub = sent[l].sub => k = l

\* C11: no step of the engine, the commit included, adds, changes or removes
\* a row of users or subscriptions.
C11_EngineLeavesStoreUnchanged ==
    [][pc' # pc => (users' = users /\ subscriptions' = subscriptions)]_vars

\* A cycle has committed and the rows are still stored.
C11_Witness ==
    /\ pc = "idle"
    /\ session = "closed"
    /\ users # << >>
    /\ subscriptions # << >>

\* C12: the session of a cycle is open only between the load and the commit
\* of that cycle: it is closed when the cycle has ended, normally or by an
\* exception.
C12_SessionReleasedOnEveryExit ==
    pc \in {"idle", "fetch", "load", "crashed"} => session # "open"

\* A cycle ended by an exception raised inside the session scope.
C12_Witness ==
    /\ pc = "crashed"
    /\ error \in {"ValueError", "SendError", "StoreError"}
    /\ subs # << >>
    /\ session = "closed"

\* The set a cycle works on is the table as it was at the load: a row
\* committed later is not in it, and every load takes the whole table.
LoadedSetIsFixed ==
    [][/\ (pc' = pc => subs' = subs)
       /\ (pc = "load" /\ pc' \in {"lookup", "commit"} => subs' = subscriptions)]_vars

\* C13: a row committed after the load is not evaluated in that cycle, and
\* every committed subscription is eventually in the set a cycle loads.
C13_CommittedIsEventuallyLoaded ==
    /\ LoadedSetIsFixed
    /\ \A n \in 1..MaxSubs :
           (Len(subscriptions) >= n) ~> (Loaded /\ Len(subs) >= n)

\* C14: every call of the notifier goes to the telegram_id (as text) of the
\* user the subscription belongs to, and reports the subscription's symbol
\* and the parsed price of the snapshot entry that matched.
C14_AddressedToOwnerWithSymbolAndPrice ==
    \A k \in 1..Len(sent) :
        LET call == sent[k]
            sub == SubOf(call.sub)
        IN  /\ \E u \in 1..Len(users) :
                   users[u].id = sub.user_id /\ call.chat_id = Str(users[u].telegram_id)
            /\ call.symbol = sub.symbol
            /\ call.entry \in MatchingEntries(sub)
            /\ Float(prices[call.entry].price).ok
            /\ call.price = Float(prices[call.entry].price).val

\* Two users with different addresses; the second one's subscription was
\* notified at its own address.
C14_Witness ==
    /\ pc = "commit"
    /\ Len(users) = 2
    /\ users[1].telegram_id # users[2].telegram_id
    /\ \E k \in 1..Len(sent) :
           /\ sent[k].ok
           /\ sent[k].chat_id = "111"
           /\ SubOf(sent[k].sub).user_id = 2
           /\ sent[k].price = 2

\* C15: within a cycle the snapshot is fetched, then the subscriptions are
\* loaded, then the sends are made, then the commit: a send is made only in
\* the open session of the cycle, which is entered at the load that follows
\* the fetch and left at the commit (or by an exception).
C15_StepsInOrder ==
    [][/\ (pc' = "load" /\ pc # "load" => pc = "fetch")
       /\ (session' = "open" /\ session # "open" => pc = "load")
       /\ (Len(sent') > Len(sent) => pc = "send" /\ session = "open")
       /\ (session = "open" /\ session' # "open" => pc' \in {"idle", "crashed"})
       /\ (pc' = "idle" /\ pc # "idle" => pc = "commit" /\ session' = "closed")]_vars

\* A cycle that has made two sends and is about to commit.
C15_Witness ==
    /\ pc = "commit"
    /\ session = "open"
    /\ Len(sent) = 2
    /\ prices # << >>
    /\ subs # << >>

\* The last entry of the snapshot that carries the subscription's symbol.
LastMatch(sub) ==
    CHOOSE m \in MatchingEntries(sub) : \A o \in MatchingEntries(sub) : o <= m

\* C16 (as stated): whether a subscription is notified, and with which price,
\* is decided by the last matching entry of the snapshot alone.
C16_LastMatchingEntryDecides ==
    \A k \in 1..Len(sent) :
        LET sub == SubOf(sent[k].sub)
            last == LastMatch(sub)
        IN  /\ sub.price = None \/ AtOrBelow(last, sub)
            /\ sent[k].price = Float(prices[last].price).val

\* C16 (amended): every matching entry is decided on its own, in snapshot
\* order: a call is made for a matching entry whose price is at or below the
\* threshold and reports that entry's price, whatever the later entries hold.
C16_EachMatchingEntryDecides ==
    /\ \A k \in 1..Len(sent) :
           LET sub == SubOf(sent[k].sub)
               e == sent[k].entry
           IN  /\ e \in MatchingEntries(sub)
               /\ sub.price = None \/ AtOrBelow(e, sub)
               /\ sent[k].price = Float(prices[e].price).val
    /\ \A k, l \in 1..Len(sent) :
           (k < l /\ sent[k].sub = sent[l].sub) => sent[k].entry < sent[l].entry

\* A subscription notified for its first matching entry although its last
\* matching entry is above the threshold.
C16_Witness ==
    /\ pc = "commit"
    /\ \E k \in 1..Len(sent) :
           LET sub == SubOf(sent[k].sub)
           IN  /\ sent[k].ok
               /\ sent[k].entry < LastMatch(sub)
               /\ ~AtOrBelow(LastMatch(sub), sub)
               /\ ~Unparsable(LastMatch(sub))

\* The two states of the engine.
Idle == pc = "idle"
Polling == pc \in {"fetch", "load", "lookup", "send", "commit"}

\* A cycle starts only from the sleep, with no session of an earlier cycle
\* open, and the sleep is entered only from the commit.
CyclesDoNotOverlap ==
    [][/\ (pc' = "fetch" /\ pc # "fetch" => Idle /\ session # "open")
       /\ (Idle' /\ ~Idle => pc = "commit")]_vars

\* C17: the engine only alternates between Idle and Polling: every step
\* leaves it in one of the two, a cycle starts only from Idle and Idle is
\* entered only by completing a cycle.
C17_AlternatesIdleAndPolling ==
    [][/\ (Idle' \/ Polling')
       /\ (pc' = "fetch" /\ pc # "fetch" => Idle /\ session # "open")
       /\ (Idle' /\ ~Idle => pc = "commit")]_vars

\* C18: no two rows of users have the same username; a register request for
\* a username that has a row ends with "Username already exists" and leaves
\* users unchanged, any other one adds a row.
C18_UsernamesStayUnique ==
    /\ [](\A a, b \in 1..Len(users) : users[a].username = users[b].username => a = b)
    /\ [][(response' # response /\ response'.kind = "register") =>
            IF \E n \in 1..Len(users) : users[n].username = response'.username
            THEN response'.result = "Username already exists" /\ users' = users
            ELSE /\ response'.result = "access_token"
                 /\ Len(users') = Len(users) + 1
                 /\ users'[Len(users')].username = response'.username]_vars

\* Both usernames are registered and a further register request was refused.
C18_Witness ==
    /\ Len(users) = 2
    /\ response.observed
    /\ response.kind = "register"
    /\ response.result = "Username already exists"

\* C19: the user_id of every stored subscription is the id of a stored user.
C19_SubscriptionsReferenceUsers ==
    \A n \in 1..Len(subscriptions) :
        \E u \in 1..Len(users) : users[u].id = subscriptions[n].user_id

\* Subscriptions of two users are stored and a poll cycle has run over them.
C19_Witness ==
    /\ pc = "commit"
    /\ Len(users) = 2
    /\ Len(subscriptions) = 2
    /\ subscriptions[1].user_id # subscriptions[2].user_id
    /\ subs = subscriptions

\* A request that changes the table adds exactly one row, with the
\* requester's id and the request's symbol and price, and changes nothing else.
SubscribeAddsOneRow ==
    [][subscriptions' # subscriptions =>
          /\ Len(subscriptions') = Len(subscriptions) + 1
          /\ \A n \in 1..Len(subscriptions) : subscriptions'[n] = subscriptions[n]
          /\ users' = users
          /\ response'.kind = "subscribe"
          /\ LET row == subscriptions'[Len(subscriptions')]
             IN  /\ row.symbol = response'.symbol
                 /\ row.price = response'.price
                 /\ \E u \in 1..Len(users) :
                        users[u].username = response'.username /\ users[u].id = row.user_id]_vars

\* C20: a subscribe request of an authenticated user, with any symbol and
\* any threshold, null included, succeeds and leaves as the last row of the
\* table a subscription with the requester's id and the request's symbol and
\* threshold.
C20_SubscribeStoresTheRequest ==
    (response.observed /\ response.kind = "subscribe") =>
        /\ response.result = "subscription"
        /\ subscriptions # << >>
        /\ LET row == subscriptions[Len(subscriptions)]
           IN  /\ row.symbol = response.symbol
               /\ row.price = response.price
               /\ \E u \in 1..Len(users) :
                      users[u].username = response.username /\ users[u].id = row.user_id

====
